---- MODULE Spec2Model ----
(***************************************************************************)
(* Retrieval-augmented chat engine of the gym analytics service:           *)
(* ChatEngine (services/ml/serving/chat_engine.py), LLMClient              *)
(* (serving/llm_client.py), KnowledgeBase (serving/knowledge_base.py) and  *)
(* the /chat handlers of services/ml/serving/api.py.                       *)
(*                                                                         *)
(* A text is a sequence of symbols: a symbol is one character ("a", " ")   *)
(* or one fixed block of characters (a remediation message).  A request    *)
(* slot is one handler invocation of the host; the host runs handlers on   *)
(* worker threads, so the steps of two slots may interleave.               *)
(***************************************************************************)
EXTENDS Integers, Sequences, FiniteSets, TLC

VARIABLES provider, boot, kb, disk, kbout, ties, conversations, req, log, cleared,
          turns

vars == <<provider, boot, kb, disk, kbout, ties, conversations, req, log, cleared,
          turns>>

(* ------------------------------ bounds --------------------------------- *)
\* fragments one backend stream delivers
MaxTokens == 2
\* turns started in a run of the long-session specification
MaxLongTurns == 11
\* stored turns a session holds at the start of a concurrent run
MaxStoredTurns == 10
\* documents added to a KnowledgeBase in a run of the index specification
MaxDocs == 2

(* ------------------------------ inputs --------------------------------- *)
Slots == {"r1", "r2"}
Sessions == {"s1", "s2"}
Messages == {"m1", "m2"}
Providers == {"ollama", "groq", "openai"}
\* response bodies of the blocking endpoint
Bodies == {<<"a">>, <<" ", "a">>, <<"a", "\n">>, <<>>}
\* response fragments of the streaming endpoint
Fragments == {<<"a">>, <<" ">>}
\* the "provider" entry of the llm section of the configuration: absent, or
\* one value (Null is YAML's null)
Null == "null"
ConfigEntries ==
    {<<>>} \cup {<<v>> : v \in {"ollama", "groq", "openai", "OLLAMA", "claude", Null}}

(* ------------------------------- text ---------------------------------- *)
Whitespace == {" ", "\n"}

RECURSIVE LStrip(_)
LStrip(t) ==
    IF t # <<>> /\ Head(t) \in Whitespace THEN LStrip(Tail(t)) ELSE t

RECURSIVE RStrip(_)
RStrip(t) ==
    IF t # <<>> /\ t[Len(t)] \in Whitespace
    THEN RStrip(SubSeq(t, 1, Len(t) - 1))
    ELSE t

\* str.strip()
Strip(t) == RStrip(LStrip(t))

RECURSIVE Join(_)
\* "".join(parts)
Join(parts) ==
    IF parts = <<>> THEN <<>> ELSE Head(parts) \o Join(Tail(parts))

\* seq[-n:] for n > 0
LastN(s, n) ==
    IF Len(s) <= n THEN s ELSE SubSeq(s, Len(s) - n + 1, Len(s))

(* ---------------------------- exceptions ------------------------------- *)
\* classes of the requests library and of the interpreter that the calls
\* of llm_client.py can raise
ReqConnectionError == "requests.ConnectionError"
ReqConnectTimeout == "requests.ConnectTimeout"
ReqReadTimeout == "requests.ReadTimeout"
ReqHTTPError == "requests.HTTPError"
ReqChunkedEncodingError == "requests.ChunkedEncodingError"
JSONDecodeError == "json.JSONDecodeError"
AttributeError == "AttributeError"
BuiltinConnectionError == "ConnectionError"

\* `except requests.ConnectionError`: ConnectTimeout derives from it,
\* ReadTimeout, HTTPError and ChunkedEncodingError do not
IsRequestsConnectionError(e) == e \in {ReqConnectionError, ReqConnectTimeout}

\* exceptions of requests.post(...) itself
PostExceptions == {ReqConnectionError, ReqConnectTimeout, ReqReadTimeout}
\* exceptions of r.iter_lines() while the body is read
ReadExceptions == {ReqConnectionError, ReqChunkedEncodingError}

(* ------------------------------ LLMClient ------------------------------ *)
OllamaHelp == <<"Ollama is not running. Start it: ...">>
OllamaStreamError == <<"[Error] Ollama is not running. Install ... ollama serve">>
ErrorFragment(e) == <<"[Error] ", e>>

\* str.lower() on the provider values of the inputs
Lower(v) == IF v = "OLLAMA" THEN "ollama" ELSE v

\* mutant: an unknown provider gets the local server
UnknownProviderDefaults(v) == [raised |-> "none", provider |-> "ollama"]

\* `raise ValueError(f"Unknown LLM provider: {provider}")`
UnknownProvider(v) == [raised |-> "ValueError", provider |-> "none"]

\* LLMClient.__init__: `self.provider = provider.lower()` and the if/elif
\* chain over it
NewClient(v) ==
    CASE v = Null -> [raised |-> "AttributeError", provider |-> "none"]
      [] Lower(v) = "ollama" -> [raised |-> "none", provider |-> "ollama"]
      [] Lower(v) = "groq" -> [raised |-> "none", provider |-> "groq"]
      [] Lower(v) = "openai" -> [raised |-> "none", provider |-> "openai"]
      [] OTHER -> UnknownProvider(v)

\* llm_cfg.get("provider", "ollama")
ConfigProvider(entry) == IF entry = <<>> THEN "ollama" ELSE entry[1]

\* create_client_from_config(config)
ClientFromConfig(entry) == NewClient(ConfigProvider(entry))

Model(p) ==
    CASE p = "ollama" -> "llama3.2:3b"
      [] p = "groq" -> "llama-3.1-8b-instant"
      [] OTHER -> "gpt-4o-mini"

\* one answer of the blocking endpoint
PostOutcomes ==
    [kind : {"ok"}, body : Bodies, exc : {"none"}]
        \cup [kind : {"status"}, body : {<<>>}, exc : {"none"}]
        \cup [kind : {"exc"}, body : {<<>>}, exc : PostExceptions]

Returned(text) == [raised |-> FALSE, text |-> text, exc |-> "none"]
Raised(e, text) == [raised |-> TRUE, text |-> text, exc |-> e]

OllamaGenerate(w) ==
    CASE w.kind = "ok" -> Returned(Strip(w.body))
      [] w.kind = "status" -> Raised(ReqHTTPError, <<"HTTP error">>)
      [] OTHER ->
           IF IsRequestsConnectionError(w.exc)
           THEN Raised(BuiltinConnectionError, OllamaHelp)
           ELSE Raised(w.exc, <<w.exc>>)

OpenaiGenerate(w) ==
    CASE w.kind = "ok" -> Returned(Strip(w.body))
      [] w.kind = "status" -> Raised(ReqHTTPError, <<"HTTP error">>)
      [] OTHER -> Raised(w.exc, <<w.exc>>)

Generate(p, w) ==
    IF p = "ollama" THEN OllamaGenerate(w) ELSE OpenaiGenerate(w)

\* one answer to the POST that opens a stream
OpenOutcomes ==
    [kind : {"ok"}, exc : {"none"}]
        \cup [kind : {"status"}, exc : {"none"}]
        \cup [kind : {"exc"}, exc : PostExceptions]

\* one line of the streamed body, or the way reading it ends
\*   token      a well-formed frame carrying a non-empty fragment
\*   empty      a well-formed frame carrying no fragment
\*   blank      an empty line
\*   malformed  a line that is no JSON document, or one without the
\*              expected keys (JSONDecodeError, KeyError, IndexError)
\*   badshape   a JSON document of another type than the code indexes
\*              (TypeError, AttributeError)
\*   done       the end marker ({"done": true}, "data: [DONE]")
\*   eof        the body ends without an end marker
\*   exc        the transport fails while the line is read
Frames ==
    [kind : {"token"}, tok : Fragments, exc : {"none"}]
        \cup [kind : {"empty", "blank", "malformed", "badshape", "done", "eof"},
              tok : {<<>>}, exc : {"none"}]
        \cup [kind : {"exc"}, tok : {<<>>}, exc : ReadExceptions]

\* what the generator of LLMClient.stream does next
Yield(tok) == [act |-> "yield", tok |-> tok, exc |-> "none"]
YieldLast(tok) == [act |-> "yield_end", tok |-> tok, exc |-> "none"]
Skip == [act |-> "skip", tok |-> <<>>, exc |-> "none"]
End == [act |-> "end", tok |-> <<>>, exc |-> "none"]
Raise(e) == [act |-> "raise", tok |-> <<>>, exc |-> e]

\* requests.post(..., stream=True); r.raise_for_status()
OllamaStreamOpen(w) ==
    CASE w.kind = "ok" -> Skip
      [] w.kind = "status" -> Raise(ReqHTTPError)
      [] OTHER ->
           IF IsRequestsConnectionError(w.exc)
           THEN YieldLast(OllamaStreamError)
           ELSE Raise(w.exc)

OpenaiStreamOpen(w) ==
    CASE w.kind = "ok" -> Skip
      [] w.kind = "status" -> YieldLast(ErrorFragment(ReqHTTPError))
      [] OTHER -> YieldLast(ErrorFragment(w.exc))

StreamOpenStep(p, w) ==
    IF p = "ollama" THEN OllamaStreamOpen(w) ELSE OpenaiStreamOpen(w)

\* one iteration of `for line in r.iter_lines()`
OllamaStreamLine(f) ==
    CASE f.kind = "token" -> Yield(f.tok)
      [] f.kind \in {"empty", "blank"} -> Skip
      [] f.kind = "malformed" -> Raise(JSONDecodeError)
      [] f.kind = "badshape" -> Raise(AttributeError)
      [] f.kind \in {"done", "eof"} -> End
      [] OTHER ->
           IF IsRequestsConnectionError(f.exc)
           THEN YieldLast(OllamaStreamError)
           ELSE Raise(f.exc)

OpenaiStreamLine(f) ==
    CASE f.kind = "token" -> Yield(f.tok)
      [] f.kind \in {"empty", "blank", "malformed"} -> Skip
      [] f.kind = "badshape" -> YieldLast(ErrorFragment(AttributeError))
      [] f.kind \in {"done", "eof"} -> End
      [] OTHER -> YieldLast(ErrorFragment(f.exc))

StreamLineStep(p, f) ==
    IF p = "ollama" THEN OllamaStreamLine(f) ELSE OpenaiStreamLine(f)

(* ---------------------------- KnowledgeBase ---------------------------- *)
\* texts of documents, and the metadata each is added with
Docs == <<"d1", "d2", "d3">>
Meta == <<[category |-> "workout", source |-> "t1"],
          [category |-> "calories", source |-> "t2"],
          [category |-> "general", source |-> "t3"]>>
MetaOf(text) ==
    CASE text = "d1" -> Meta[1]
      [] text = "d2" -> Meta[2]
      [] OTHER -> Meta[3]

\* cosine similarity of a question and a fitted row, in units of 0.00001:
\* m1 separates the three texts, m2 matches none, m3 scores d1 and d2
\* alike just above the floor and d3 exactly at it
Similarity(q, d) ==
    CASE q = "m1" /\ d = "d1" -> 40000
      [] q = "m1" /\ d = "d2" -> 70000
      [] q = "m1" /\ d = "d3" -> 1000
      [] q = "m3" /\ d = "d1" -> 2004
      [] q = "m3" /\ d = "d2" -> 2004
      [] q = "m3" /\ d = "d3" -> 2000
      [] OTHER -> 0

\* the relevance floor 0.02, in units of 0.00001
RelevanceFloor == 2000
QueryDefaultTopK == 8
RetrieveTopK == 6

\* texts added to an index, questions and top_k values it is queried with
AddTexts == {"d1", "d2"}
Questions == {"m1", "m2", "m3"}
TopKs == {0, 1, 2, QueryDefaultTopK}

\* round(float(score), 4): a score in units of 0.00001 to units of 0.0001,
\* halves to the even neighbour
Round4(x) ==
    LET q == x \div 10
        r == x % 10
    IN IF r > 5 \/ (r = 5 /\ q % 2 = 1) THEN q + 1 ELSE q

\* the attributes vectorizer and tfidf_matrix: None, or an object
NoVectorizer == [state |-> "none", corpus |-> <<>>]
Unfitted == [state |-> "unfitted", corpus |-> <<>>]
Fitted(corpus) == [state |-> "fitted", corpus |-> corpus]
NoMatrix == [set |-> FALSE, rows |-> <<>>]
Matrix(rows) == [set |-> TRUE, rows |-> rows]

\* a KnowledgeBase; `present` tells the engine's kb from None, `indexed` is
\* a history field: build_index has been called on this object or on the
\* one its artifacts were saved from
NoKB == [present |-> FALSE, documents |-> <<>>, metadata |-> <<>>,
         vectorizer |-> NoVectorizer, tfidf_matrix |-> NoMatrix,
         indexed |-> FALSE]
\* KnowledgeBase()
FreshKB == [NoKB EXCEPT !.present = TRUE]
BuiltKB == [present |-> TRUE, documents |-> Docs, metadata |-> Meta,
            vectorizer |-> Fitted(Docs), tfidf_matrix |-> Matrix(Docs),
            indexed |-> TRUE]

\* an index of seven documents, all of which match question m1
LargeDocs == <<"d1", "d2", "d1", "d2", "d1", "d2", "d1">>
LargeKB == [present |-> TRUE, documents |-> LargeDocs,
            metadata |-> [i \in 1..Len(LargeDocs) |-> MetaOf(LargeDocs[i])],
            vectorizer |-> Fitted(LargeDocs), tfidf_matrix |-> Matrix(LargeDocs),
            indexed |-> TRUE]

\* add(text, category, source)
Add(k, text, meta) ==
    [k EXCEPT !.documents = Append(@, text), !.metadata = Append(@, meta)]

\* build_index(): the vectorizer is assigned before fit_transform runs, and
\* fit_transform raises ValueError (empty vocabulary) on no documents
BuildIndex(k) ==
    IF k.documents = <<>>
    THEN [kb |-> [k EXCEPT !.vectorizer = Unfitted, !.indexed = TRUE],
          raised |-> "ValueError"]
    ELSE [kb |-> [k EXCEPT !.vectorizer = Fitted(k.documents),
                           !.tfidf_matrix = Matrix(k.documents),
                           !.indexed = TRUE],
          raised |-> "none"]

Reverse(s) == [i \in 1..Len(s) |-> s[Len(s) + 1 - i]]

RECURSIVE ArgSort(_, _)
\* np.argsort(scores): the positions 1..n by ascending score.  The default
\* kind is not a stable sort: the order it leaves equal scores in depends on
\* the build, and `ties` says which of two builds this is.
ArgSort(scores, n) ==
    IF n = 0 THEN <<>>
    ELSE LET sorted == ArgSort(scores, n - 1)
             k == Cardinality({j \in 1..Len(sorted) :
                                  IF ties = "stable"
                                  THEN scores[sorted[j]] <= scores[n]
                                  ELSE scores[sorted[j]] < scores[n]})
         IN SubSeq(sorted, 1, k) \o <<n>> \o SubSeq(sorted, k + 1, Len(sorted))

\* mutant: every scored document is kept
ClearsFloorAlways(score) == TRUE

\* `if scores[i] > 0.02`
ClearsFloor(score) == score > RelevanceFloor

RECURSIVE AboveFloor(_, _, _)
AboveFloor(k, scores, idx) ==
    IF idx = <<>> THEN <<>>
    ELSE LET i == Head(idx)
             rest == AboveFloor(k, scores, Tail(idx))
         IN IF ClearsFloor(scores[i])
            THEN <<[text |-> k.documents[i], score |-> Round4(scores[i]),
                    metadata |-> k.metadata[i]]>> \o rest
            ELSE rest

\* mutant: the guard of query is gone
NoIndexNever(k) == FALSE

\* `if self.vectorizer is None or self.tfidf_matrix is None`
NoIndex(k) == k.vectorizer.state = "none" \/ ~k.tfidf_matrix.set

\* the exception query ends with, "none" when it returns
QueryRaises(k) ==
    CASE NoIndex(k) -> "none"
      [] k.vectorizer.state = "none" -> "AttributeError"
      [] k.vectorizer.state = "unfitted" -> "NotFittedError"
      [] ~k.tfidf_matrix.set -> "ValueError"
      [] Len(k.tfidf_matrix.rows) > Len(k.documents) -> "IndexError"
      [] Len(k.tfidf_matrix.rows) > Len(k.metadata) -> "IndexError"
      [] OTHER -> "none"

\* scores[:top_k]
FirstN(s, n) == SubSeq(s, 1, IF Len(s) < n THEN Len(s) ELSE n)

\* what query returns
Query(k, question, top_k) ==
    IF NoIndex(k) \/ QueryRaises(k) # "none" THEN <<>>
    ELSE LET rows == k.tfidf_matrix.rows
             scores == [i \in 1..Len(rows) |-> Similarity(question, rows[i])]
             top_idx == FirstN(Reverse(ArgSort(scores, Len(scores))), top_k)
         IN AboveFloor(k, scores, top_idx)

\* the three artifacts of a directory, each absent (<<>>) or one value;
\* `origin` is a history field, the object the artifacts were saved from
NoDisk == [vectorizer |-> <<>>, matrix |-> <<>>, documents |-> <<>>,
           origin |-> <<>>]

\* mutant: the documents file holds the texts only
JsonDumpTexts(k) == [documents |-> k.documents, metadata |-> <<>>]

\* json.dump({"documents": ..., "metadata": ...}, f)
JsonDump(k) == [documents |-> k.documents, metadata |-> k.metadata]

\* save(path)
Save(k) ==
    [vectorizer |-> <<k.vectorizer>>, matrix |-> <<k.tfidf_matrix>>,
     documents |-> <<JsonDump(k)>>, origin |-> <<k>>]

\* mutant: a missing artifact ends the load with what was read so far
MissingIgnored(partial) == [raised |-> "none", returned |-> <<partial>>]

\* joblib.load / open on a missing file: FileNotFoundError leaves load, and
\* the object under construction is dropped
Missing(partial) == [raised |-> "FileNotFoundError", returned |-> <<>>]

\* load(path): the artifacts are read in this order
Load(d) ==
    LET kb0 == FreshKB
        kb1 == IF d.vectorizer = <<>> THEN kb0
               ELSE [kb0 EXCEPT !.vectorizer = d.vectorizer[1]]
        kb2 == IF d.matrix = <<>> THEN kb1
               ELSE [kb1 EXCEPT !.tfidf_matrix = d.matrix[1]]
        kb3 == IF d.documents = <<>> THEN kb2
               ELSE [kb2 EXCEPT !.documents = d.documents[1].documents,
                                !.metadata = d.documents[1].metadata,
                                !.indexed = d.origin # <<>> /\ d.origin[1].indexed]
    IN CASE d.vectorizer = <<>> -> Missing(kb0)
         [] d.matrix = <<>> -> Missing(kb1)
         [] d.documents = <<>> -> Missing(kb2)
         [] OTHER -> [raised |-> "none", returned |-> <<kb3>>]

(* ------------------------------ ChatEngine ----------------------------- *)
max_history == 10

\* the context string: "" is the empty sequence, otherwise one chunk
\* "[category] text" per retrieved document
RetrieveContext(k, query, top_k) ==
    IF ~k.present THEN <<>>
    ELSE LET results == Query(k, query, top_k)
         IN [i \in 1..Len(results) |->
                [category |-> results[i].metadata.category, text |-> results[i].text]]

HistoryLine(msg) ==
    [part |-> "line",
     role |-> IF msg.role = "user" THEN "User" ELSE "FitFlex AI",
     content |-> msg.content]

\* mutant: the history block comes before the context block
BuildPromptHistoryFirst(message, context, history) ==
    (IF history # <<>>
     THEN <<[part |-> "history_header"]>>
          \o [i \in 1..Len(LastN(history, max_history)) |->
                 HistoryLine(LastN(history, max_history)[i])]
          \o <<[part |-> "history_end"]>>
     ELSE <<>>)
    \o (IF context # <<>>
        THEN <<[part |-> "context_header"], [part |-> "context", chunks |-> context],
               [part |-> "context_end"]>>
        ELSE <<>>)
    \o <<[part |-> "user", content |-> message], [part |-> "instruction"]>>

\* _build_prompt: the parts that "\n".join(parts) puts on lines
BuildPrompt(message, context, history) ==
    (IF context # <<>>
     THEN <<[part |-> "context_header"], [part |-> "context", chunks |-> context],
            [part |-> "context_end"]>>
     ELSE <<>>)
    \o (IF history # <<>>
        THEN <<[part |-> "history_header"]>>
             \o [i \in 1..Len(LastN(history, max_history)) |->
                    HistoryLine(LastN(history, max_history)[i])]
             \o <<[part |-> "history_end"]>>
        ELSE <<>>)
    \o <<[part |-> "user", content |-> message], [part |-> "instruction"]>>

\* self.conversations.get(session_id, [])
GetHistory(c, sid) == IF sid \in DOMAIN c THEN c[sid] ELSE <<>>

\* mutant: the assignment replaces the whole map
SetItemOnly(c, sid, value) == [s \in {sid} |-> value]

\* self.conversations[session_id] = value
SetItem(c, sid, value) ==
    [s \in DOMAIN c \cup {sid} |-> IF s = sid THEN value ELSE c[s]]

\* self.conversations[session_id].append(entry)
AppendEntry(c, sid, entry) == [c EXCEPT ![sid] = Append(@, entry)]

UserEntry(message) == [role |-> "user", content |-> message]
AssistantEntry(text) == [role |-> "assistant", content |-> text]

\* the test of the trim: len(...) > self.max_history * 2
NeedsTrim(h) == Len(h) > max_history * 2

\* mutant: the trim keeps everything
TrimSliceNone(h) == h

\* mutant: the trim is off by one entry
TrimSliceOdd(h) == LastN(h, max_history * 2 - 1)

\* mutant: the trim keeps the oldest entries
TrimSliceOldest(h) == SubSeq(h, 1, max_history * 2)

\* the slice of the trim: [-self.max_history * 2:]
TrimSlice(h) == LastN(h, max_history * 2)

\* mutant: the session's list is emptied and its key kept
PopKeepsKey(c, sid) == [s \in DOMAIN c |-> IF s = sid THEN <<>> ELSE c[s]]

\* self.conversations.pop(session_id, None)
Pop(c, sid) == [s \in DOMAIN c \ {sid} |-> c[s]]

\* mutant: pop without a default
PopNoDefault(c, sid) == sid \notin DOMAIN c

\* whether that pop raises KeyError: with a default it never does
PopRaises(c, sid) == FALSE

\* mutant: the fragment is not collected
CollectNothing(full_response, token) == full_response

\* full_response.append(token)
Collect(full_response, token) == Append(full_response, token)

\* mutant: chat and stream_chat have no except clause
EngineCatchesNothing(e) == FALSE

\* `except ConnectionError` of chat and stream_chat: the built-in class
EngineCatches(e) == e = BuiltinConnectionError

\* the events of stream_chat ("data: {...}\n\n")
TokenEvent(tok) == [done |-> FALSE, token |-> tok, model |-> ""]
DoneEvent(p) == [done |-> TRUE, token |-> <<>>, model |-> Model(p)]

\* the dict chat returns
ChatResult(p, k, message, context, response) ==
    [response |-> response,
     context_used |-> Len(context) > 0,
     chunks_retrieved |->
         IF k.present THEN Len(Query(k, message, QueryDefaultTopK)) ELSE 0,
     inference_ms |-> "elapsed",
     model |-> Model(p),
     provider |-> p]

\* create_chat_engine: the knowledge base the engine is given.  Only the
\* documents file is looked for; an exception of load is printed and the
\* engine is made without knowledge base.
CreateChatEngine(d) ==
    IF d.documents = <<>> THEN NoKB
    ELSE IF Load(d).raised # "none" THEN NoKB
    ELSE Load(d).returned[1]

(* ------------------------------- state --------------------------------- *)
\* provider       LLMClient.provider, "none" while there is no client
\* boot           the outcome of constructing the client (history variable)
\* kb             ChatEngine.kb; in the index specification, the
\*                KnowledgeBase the caller holds
\* disk           the artifacts in the knowledge-base directory
\* kbout          the last KnowledgeBase operation and its outcome
\* ties           the order np.argsort leaves equal scores in
\* conversations  ChatEngine.conversations: session id -> list of entries
\* req            the locals of each handler invocation and where it stands;
\*                wire, wire_ok, wire_failed, wire_exc and after are
\*                history variables: the text the backend sent (one
\*                element per body or fragment), whether its answer ended
\*                without a failure, whether the transport failed and
\*                with which exception, and the session's memory when the
\*                call completed
\* log            per session, the (message, reply) pairs stored since the
\*                last clear_history (history variable)
\* cleared        the outcome of the last clear_history call
\* turns          chat and stream_chat calls started (history variable)
Idle ==
    [pc |-> "idle", kind |-> "none", sid |-> "none", message |-> "none",
     context |-> <<>>, history |-> <<>>, prompt |-> <<>>, response |-> <<>>,
     full_response |-> <<>>, events |-> <<>>, exc |-> "none",
     result |-> <<>>, src_done |-> FALSE, tmp |-> <<>>,
     wire |-> <<>>, wire_ok |-> FALSE, wire_failed |-> FALSE,
     wire_exc |-> "none", after |-> <<>>]

Terminal == {"idle", "done", "raised", "abandoned"}

InFlight(r) == req[r].pc \notin Terminal
Quiet == \A q \in Slots : ~InFlight(q)

RECURSIVE Flatten(_)
\* the entries that a sequence of (message, reply) pairs appends
Flatten(pairs) ==
    IF pairs = <<>> THEN <<>>
    ELSE <<UserEntry(Head(pairs).message), AssistantEntry(Head(pairs).reply)>>
             \o Flatten(Tail(pairs))

StoredPairs(n) == [i \in 1..n |-> [message |-> "m1", reply |-> <<"a">>]]

NoOut ==
    [op |-> "none", question |-> "none", top_k |-> 0, results |-> <<>>,
     raised |-> "none", returned |-> <<>>]

InitWith(providers, kbs, stored) ==
    /\ provider \in providers
    /\ boot = <<[config |-> <<provider>>, raised |-> "none"]>>
    /\ kb \in kbs
    /\ disk = NoDisk
    /\ kbout = NoOut
    /\ ties = "stable"
    /\ \E n \in stored :
          /\ conversations =
                 IF n = 0 THEN <<>>
                 ELSE [s \in {"s1"} |-> TrimSlice(Flatten(StoredPairs(n)))]
          /\ log = [s \in Sessions |-> IF s = "s1" THEN StoredPairs(n) ELSE <<>>]
    /\ req = [r \in Slots |-> Idle]
    /\ cleared = <<>>
    /\ turns = 0

(* ------------------------------ actions -------------------------------- *)
Start(r, sid, message, kind, pc) ==
    /\ req[r].pc \in Terminal
    /\ req' = [req EXCEPT ![r] =
                  [Idle EXCEPT !.pc = pc, !.kind = kind, !.sid = sid,
                               !.message = message,
                               !.context = RetrieveContext(kb, message, RetrieveTopK),
                               !.history = GetHistory(conversations, sid),
                               !.prompt =
                                   BuildPrompt(message,
                                               RetrieveContext(kb, message, RetrieveTopK),
                                               GetHistory(conversations, sid))]]
    /\ turns' = turns + 1
    /\ UNCHANGED <<provider, boot, kb, disk, kbout, ties, conversations, log, cleared>>

\* mutant: the user entry is stored before the backend is called
ChatBeginStoresUser(r, sid, message) ==
    /\ req[r].pc \in Terminal
    /\ req' = [req EXCEPT ![r] =
                  [Idle EXCEPT !.pc = "generate", !.kind = "chat", !.sid = sid,
                               !.message = message,
                               !.context = RetrieveContext(kb, message, RetrieveTopK),
                               !.history = GetHistory(conversations, sid),
                               !.prompt =
                                   BuildPrompt(message,
                                               RetrieveContext(kb, message, RetrieveTopK),
                                               GetHistory(conversations, sid))]]
    /\ conversations' =
           SetItem(conversations, sid,
                   Append(GetHistory(conversations, sid), UserEntry(message)))
    /\ turns' = turns + 1
    /\ UNCHANGED <<provider, boot, kb, disk, kbout, ties, log, cleared>>

\* chat, lines 98-107: retrieval, history, prompt
ChatBegin(r, sid, message) == Start(r, sid, message, "chat", "generate")

\* chat, lines 110-113: self.llm.generate(prompt, system=SYSTEM_PROMPT)
ChatGenerate(r, w) ==
    /\ req[r].pc = "generate"
    /\ LET g == Generate(provider, w)
           q == [req[r] EXCEPT !.wire_failed = (w.kind = "exc"), !.wire_exc = w.exc]
       IN req' = [req EXCEPT ![r] =
              IF ~g.raised
              THEN [q EXCEPT !.pc = "store_check", !.response = g.text,
                             !.wire = <<w.body>>, !.wire_ok = TRUE]
              ELSE IF EngineCatches(g.exc)
              THEN [q EXCEPT !.pc = "store_check", !.response = g.text]
              ELSE [q EXCEPT !.pc = "raised", !.exc = g.exc]]
    /\ UNCHANGED <<provider, boot, kb, disk, kbout, ties, conversations, log, cleared, turns>>

\* mutant: the user entry is stored before generation starts
StreamBeginStoresUser(r, sid, message) ==
    /\ req[r].pc \in Terminal
    /\ req' = [req EXCEPT ![r] =
                  [Idle EXCEPT !.pc = "open", !.kind = "stream", !.sid = sid,
                               !.message = message,
                               !.context = RetrieveContext(kb, message, RetrieveTopK),
                               !.history = GetHistory(conversations, sid),
                               !.prompt =
                                   BuildPrompt(message,
                                               RetrieveContext(kb, message, RetrieveTopK),
                                               GetHistory(conversations, sid))]]
    /\ conversations' =
           SetItem(conversations, sid,
                   Append(GetHistory(conversations, sid), UserEntry(message)))
    /\ turns' = turns + 1
    /\ UNCHANGED <<provider, boot, kb, disk, kbout, ties, log, cleared>>

\* stream_chat, lines 142-148, run by the first next() of the generator
StreamBegin(r, sid, message) == Start(r, sid, message, "stream", "open")

\* what stream_chat does with one step of self.llm.stream(...)
StreamAdvance(q, step) ==
    CASE step.act = "yield" ->
           [q EXCEPT !.pc = "yielded",
                     !.full_response = Collect(@, step.tok),
                     !.events = Append(@, TokenEvent(step.tok))]
      [] step.act = "yield_end" ->
           [q EXCEPT !.pc = "yielded", !.src_done = TRUE,
                     !.full_response = Collect(@, step.tok),
                     !.events = Append(@, TokenEvent(step.tok))]
      [] step.act = "skip" -> [q EXCEPT !.pc = "stream"]
      [] step.act = "end" ->
           [q EXCEPT !.pc = "store_check", !.wire_ok = TRUE,
                     !.response = Join(q.full_response)]
      [] OTHER ->
           IF EngineCatches(step.exc)
           THEN [q EXCEPT !.pc = "yielded", !.src_done = TRUE,
                          !.full_response = Collect(@, <<step.exc>>),
                          !.events = Append(@, TokenEvent(<<step.exc>>))]
           ELSE [q EXCEPT !.pc = "raised", !.exc = step.exc]

\* _ollama_stream / _openai_stream: the POST and raise_for_status
StreamOpen(r, w) ==
    /\ req[r].pc = "open"
    /\ req' = [req EXCEPT ![r] =
                  StreamAdvance([@ EXCEPT !.wire_failed = (w.kind = "exc"),
                                            !.wire_exc = w.exc],
                                StreamOpenStep(provider, w))]
    /\ UNCHANGED <<provider, boot, kb, disk, kbout, ties, conversations, log, cleared, turns>>

\* mutant: the backend stream is read on after the consumer has left
PullsAbandoned(q) == q.pc \in {"stream", "yielded", "abandoned"}

\* the loop `for token in self.llm.stream(...)` takes the next line only
\* while the generator is being iterated: a closed generator runs nothing
Pulls(q) == q.pc \in {"stream", "yielded"}

\* one line of the body is read (the consumer has asked for the next event)
StreamRead(r, f) ==
    /\ Pulls(req[r])
    /\ ~req[r].src_done
    /\ f.kind = "token" => Len(req[r].wire) < MaxTokens
    /\ req' = [req EXCEPT ![r] =
                  StreamAdvance([@ EXCEPT !.wire = IF f.kind = "token"
                                                   THEN Append(@, f.tok) ELSE @,
                                            !.wire_failed = (f.kind = "exc"),
                                            !.wire_exc = f.exc],
                                StreamLineStep(provider, f))]
    /\ UNCHANGED <<provider, boot, kb, disk, kbout, ties, conversations, log, cleared, turns>>

\* the generator of self.llm.stream is exhausted after its error fragment
StreamEnd(r) ==
    /\ req[r].pc = "yielded"
    /\ req[r].src_done
    /\ req' = [req EXCEPT ![r] =
                  [@ EXCEPT !.pc = "store_check",
                            !.response = Join(req[r].full_response)]]
    /\ UNCHANGED <<provider, boot, kb, disk, kbout, ties, conversations, log, cleared, turns>>

\* mutant: a closed generator goes on to store what it has collected
AbandonStores(r) ==
    /\ req[r].pc = "yielded"
    /\ req' = [req EXCEPT ![r] =
                  [@ EXCEPT !.pc = "store_check",
                            !.response = Join(req[r].full_response)]]
    /\ UNCHANGED <<provider, boot, kb, disk, kbout, ties, conversations, log, cleared, turns>>

\* the consumer closes the generator while it is suspended at a token event
Abandon(r) ==
    /\ req[r].pc = "yielded"
    /\ req' = [req EXCEPT ![r] = [@ EXCEPT !.pc = "abandoned"]]
    /\ UNCHANGED <<provider, boot, kb, disk, kbout, ties, conversations, log, cleared, turns>>

\* `if session_id not in self.conversations:`
StoreCheck(r) ==
    /\ req[r].pc = "store_check"
    /\ req' = [req EXCEPT ![r] =
                  [@ EXCEPT !.pc = IF req[r].sid \in DOMAIN conversations
                                   THEN "store_user" ELSE "store_create"]]
    /\ UNCHANGED <<provider, boot, kb, disk, kbout, ties, conversations, log, cleared, turns>>

\* `self.conversations[session_id] = []`
StoreCreate(r) ==
    /\ req[r].pc = "store_create"
    /\ conversations' = SetItem(conversations, req[r].sid, <<>>)
    /\ req' = [req EXCEPT ![r] = [@ EXCEPT !.pc = "store_user"]]
    /\ UNCHANGED <<provider, boot, kb, disk, kbout, ties, log, cleared, turns>>

\* `self.conversations[session_id].append({"role": "user", ...})`
StoreUser(r) ==
    /\ req[r].pc = "store_user"
    /\ IF req[r].sid \in DOMAIN conversations
       THEN /\ conversations' =
                   AppendEntry(conversations, req[r].sid, UserEntry(req[r].message))
            /\ req' = [req EXCEPT ![r] = [@ EXCEPT !.pc = "store_assistant"]]
       ELSE /\ conversations' = conversations
            /\ req' = [req EXCEPT ![r] = [@ EXCEPT !.pc = "raised", !.exc = "KeyError"]]
    /\ UNCHANGED <<provider, boot, kb, disk, kbout, ties, log, cleared, turns>>

\* `self.conversations[session_id].append({"role": "assistant", ...})`
StoreAssistant(r) ==
    /\ req[r].pc = "store_assistant"
    /\ IF req[r].sid \in DOMAIN conversations
       THEN /\ conversations' =
                   AppendEntry(conversations, req[r].sid, AssistantEntry(req[r].response))
            /\ log' = [log EXCEPT ![req[r].sid] =
                           Append(@, [message |-> req[r].message,
                                      reply |-> req[r].response])]
            /\ req' = [req EXCEPT ![r] = [@ EXCEPT !.pc = "trim_read"]]
       ELSE /\ conversations' = conversations
            /\ log' = log
            /\ req' = [req EXCEPT ![r] = [@ EXCEPT !.pc = "raised", !.exc = "KeyError"]]
    /\ UNCHANGED <<provider, boot, kb, disk, kbout, ties, cleared, turns>>

\* `if len(self.conversations[session_id]) > self.max_history * 2:` and the
\* right-hand side of the assignment under it
TrimRead(r) ==
    /\ req[r].pc = "trim_read"
    /\ req' = [req EXCEPT ![r] =
                  IF req[r].sid \notin DOMAIN conversations
                  THEN [@ EXCEPT !.pc = "raised", !.exc = "KeyError"]
                  ELSE IF NeedsTrim(conversations[req[r].sid])
                  THEN [@ EXCEPT !.pc = "trim_write",
                                 !.tmp = TrimSlice(conversations[req[r].sid])]
                  ELSE [@ EXCEPT !.pc = "finish"]]
    /\ UNCHANGED <<provider, boot, kb, disk, kbout, ties, conversations, log, cleared, turns>>

\* `self.conversations[session_id] = ...` of the trim
TrimWrite(r) ==
    /\ req[r].pc = "trim_write"
    /\ conversations' = SetItem(conversations, req[r].sid, req[r].tmp)
    /\ req' = [req EXCEPT ![r] = [@ EXCEPT !.pc = "finish", !.tmp = <<>>]]
    /\ UNCHANGED <<provider, boot, kb, disk, kbout, ties, log, cleared, turns>>

\* chat, lines 127-134
ChatReturn(r) ==
    /\ req[r].pc = "finish"
    /\ req[r].kind = "chat"
    /\ req' = [req EXCEPT ![r] =
                  [@ EXCEPT !.pc = "done",
                            !.result = <<ChatResult(provider, kb, req[r].message,
                                                    req[r].context, req[r].response)>>,
                            !.after = GetHistory(conversations, req[r].sid)]]
    /\ UNCHANGED <<provider, boot, kb, disk, kbout, ties, conversations, log, cleared, turns>>

\* stream_chat, line 173: the completion event
StreamDone(r) ==
    /\ req[r].pc = "finish"
    /\ req[r].kind = "stream"
    /\ req' = [req EXCEPT ![r] =
                  [@ EXCEPT !.pc = "done",
                            !.events = Append(@, DoneEvent(provider)),
                            !.after = GetHistory(conversations, req[r].sid)]]
    /\ UNCHANGED <<provider, boot, kb, disk, kbout, ties, conversations, log, cleared, turns>>

\* clear_history, reached through DELETE /chat/{session_id}
ClearHistory(sid) ==
    /\ conversations' =
           IF PopRaises(conversations, sid) THEN conversations
           ELSE Pop(conversations, sid)
    /\ log' = [log EXCEPT ![sid] = <<>>]
    /\ cleared' = <<[sid |-> sid, found |-> sid \in DOMAIN conversations,
                     raised |-> PopRaises(conversations, sid)]>>
    /\ UNCHANGED <<provider, boot, kb, disk, kbout, ties, req, turns>>

\* the backend answers a started request
Backend(r, posts, opens, frames) ==
    \/ \E w \in posts : ChatGenerate(r, w)
    \/ \E w \in opens : StreamOpen(r, w)
    \/ \E f \in frames : StreamRead(r, f)

\* lines 117-134 and 161-173: the turn is stored and the call completes
Store(r) ==
    \/ StoreCheck(r)
    \/ StoreCreate(r)
    \/ StoreUser(r)
    \/ StoreAssistant(r)
    \/ TrimRead(r)
    \/ TrimWrite(r)
    \/ ChatReturn(r)
    \/ StreamDone(r)

\* the state of the engine, which no KnowledgeBase operation touches
engine == <<provider, boot, conversations, req, log, cleared, turns>>

\* kb.add(text, category, source)
KBAdd(text) ==
    /\ Len(kb.documents) < MaxDocs
    /\ kb' = Add(kb, text, MetaOf(text))
    /\ kbout' = [NoOut EXCEPT !.op = "add"]
    /\ UNCHANGED <<engine, disk, ties>>

\* kb.build_index()
KBBuildIndex ==
    /\ kb' = BuildIndex(kb).kb
    /\ kbout' = [NoOut EXCEPT !.op = "build_index", !.raised = BuildIndex(kb).raised]
    /\ UNCHANGED <<engine, disk, ties>>

\* kb.query(question, top_k)
KBQuery(question, top_k) ==
    /\ kbout' = [NoOut EXCEPT !.op = "query", !.question = question,
                              !.top_k = top_k,
                              !.results = Query(kb, question, top_k),
                              !.raised = QueryRaises(kb)]
    /\ UNCHANGED <<engine, kb, disk, ties>>

\* kb.save(path)
KBSave ==
    /\ disk' = Save(kb)
    /\ kbout' = [NoOut EXCEPT !.op = "save"]
    /\ UNCHANGED <<engine, kb, ties>>

\* kb = KnowledgeBase.load(path): the caller's variable is assigned only
\* when load returns
KBLoad ==
    /\ kb' = IF Load(disk).returned # <<>> THEN Load(disk).returned[1] ELSE kb
    /\ kbout' = [NoOut EXCEPT !.op = "load", !.raised = Load(disk).raised,
                              !.returned = Load(disk).returned]
    /\ UNCHANGED <<engine, disk, ties>>

\* the try block of lifespan, once, at startup: the client is made by
\* create_client_from_config(config), then the engine by create_chat_engine;
\* an exception leaves the host with neither
Startup(entry) ==
    /\ boot = <<>>
    /\ provider' = ClientFromConfig(entry).provider
    /\ boot' = <<[config |-> entry, raised |-> ClientFromConfig(entry).raised]>>
    /\ kb' = IF ClientFromConfig(entry).raised = "none"
             THEN CreateChatEngine(disk) ELSE kb
    /\ UNCHANGED <<disk, kbout, ties, conversations, req, log, cleared, turns>>

\* One call of chat or stream_chat, against any behaviour of the backend, on
\* an engine holding no, one or max_history stored turns; clear_history runs
\* before and after the call.
Init == InitWith(Providers, {NoKB, BuiltKB}, {0, 1, MaxStoredTurns})

Next ==
    \/ \E sid \in Sessions, m \in Messages :
          req["r1"].pc = "idle" /\ ChatBegin("r1", sid, m)
    \/ \E sid \in Sessions, m \in Messages :
          req["r1"].pc = "idle" /\ StreamBegin("r1", sid, m)
    \/ Backend("r1", PostOutcomes, OpenOutcomes, Frames)
    \/ StreamEnd("r1")
    \/ Abandon("r1")
    \/ Store("r1")
    \/ \E sid \in Sessions : Quiet /\ ClearHistory(sid)

Spec == Init /\ [][Next]_vars

\* Many calls, one at a time, on one session: the blocking endpoint answers
\* "a" or fails with a status or a read timeout, the streaming endpoint
\* fails or ends without a fragment.
LongPosts ==
    {[kind |-> "ok", body |-> <<"a">>, exc |-> "none"],
     [kind |-> "status", body |-> <<>>, exc |-> "none"],
     [kind |-> "exc", body |-> <<>>, exc |-> ReqReadTimeout]}
LongOpens == {[kind |-> k, exc |-> "none"] : k \in {"ok", "status"}}
LongFrames ==
    {[kind |-> k, tok |-> <<>>, exc |-> "none"] : k \in {"blank", "malformed", "done"}}

InitLong == InitWith({"ollama"}, {NoKB}, {0})

NextLong ==
    \/ Quiet /\ turns < MaxLongTurns /\ ChatBegin("r1", "s1", "m1")
    \/ Quiet /\ turns < MaxLongTurns /\ StreamBegin("r1", "s1", "m1")
    \/ Backend("r1", LongPosts, LongOpens, LongFrames)
    \/ Store("r1")
    \/ Quiet /\ ClearHistory("s1")

SpecLong == InitLong /\ [][NextLong]_vars

\* A chat call and then a stream_chat call on one session, one after the
\* other, with clear_history between them, on an engine without knowledge
\* base or with one of seven documents.
InitPair == InitWith({"ollama", "openai"}, {NoKB, LargeKB}, {0, MaxStoredTurns})

NextPair ==
    \/ Quiet /\ req["r1"].pc = "idle" /\ ChatBegin("r1", "s1", "m1")
    \/ Quiet /\ req["r2"].pc = "idle" /\ StreamBegin("r2", "s1", "m1")
    \/ \E r \in Slots : Backend(r, PostOutcomes, OpenOutcomes, Frames)
    \/ StreamEnd("r2")
    \/ \E r \in Slots : Store(r)
    \/ Quiet /\ ClearHistory("s1")

SpecPair == InitPair /\ [][NextPair]_vars

\* Two calls on worker threads of the host: /chat is a plain `def` handler
\* and takes no lock, so the steps of the two calls interleave freely.  The
\* backend is healthy; session s1 holds no or max_history stored turns.
ConcPosts == {[kind |-> "ok", body |-> <<"a">>, exc |-> "none"]}
ConcOpens == {[kind |-> "ok", exc |-> "none"]}
ConcFrames ==
    {[kind |-> "token", tok |-> <<"a">>, exc |-> "none"],
     [kind |-> "done", tok |-> <<>>, exc |-> "none"]}

SlotMessage(r) == IF r = "r1" THEN "m1" ELSE "m2"

ConcStep(r) ==
    \/ Backend(r, ConcPosts, ConcOpens, ConcFrames)
    \/ Abandon(r)
    \/ Store(r)

InitConc == InitWith({"ollama"}, {NoKB}, {0, MaxStoredTurns})

NextConc ==
    \/ \E r \in Slots, sid \in Sessions :
          req[r].pc = "idle" /\ ChatBegin(r, sid, SlotMessage(r))
    \/ \E r \in Slots, sid \in Sessions :
          req[r].pc = "idle" /\ StreamBegin(r, sid, SlotMessage(r))
    \/ \E r \in Slots : ConcStep(r)

SpecConc == InitConc /\ [][NextConc]_vars

\* A KnowledgeBase object under any sequence of add, build_index, query,
\* save and load.  The directory starts with the artifacts of an index
\* saved earlier, any of the three files possibly missing.
InitDisks ==
    {[vectorizer |-> IF v THEN Save(BuiltKB).vectorizer ELSE <<>>,
      matrix |-> IF m THEN Save(BuiltKB).matrix ELSE <<>>,
      documents |-> IF d THEN Save(BuiltKB).documents ELSE <<>>,
      origin |-> <<BuiltKB>>] : v \in BOOLEAN, m \in BOOLEAN, d \in BOOLEAN}

InitKB ==
    /\ provider = "ollama"
    /\ boot = <<[config |-> <<"ollama">>, raised |-> "none"]>>
    /\ kb = FreshKB
    /\ disk \in InitDisks
    /\ kbout = NoOut
    /\ ties \in {"stable", "reversed"}
    /\ conversations = <<>>
    /\ log = [s \in Sessions |-> <<>>]
    /\ req = [r \in Slots |-> Idle]
    /\ cleared = <<>>
    /\ turns = 0

NextKB ==
    \/ \E text \in AddTexts : KBAdd(text)
    \/ KBBuildIndex
    \/ \E question \in Questions, top_k \in TopKs : KBQuery(question, top_k)
    \/ KBSave
    \/ KBLoad

SpecKB == InitKB /\ [][NextKB]_vars

\* Startup and one call: the client is constructed from the configuration
\* and the engine over what the knowledge-base directory holds,
\* and when there is a client the host serves one chat or stream_chat call,
\* the first on its session, which stores two entries and trims nothing.
InitBoot ==
    /\ provider = "none"
    /\ boot = <<>>
    /\ kb = NoKB
    /\ disk \in InitDisks
    /\ kbout = NoOut
    /\ ties = "stable"
    /\ conversations = <<>>
    /\ log = [s \in Sessions |-> <<>>]
    /\ req = [r \in Slots |-> Idle]
    /\ cleared = <<>>
    /\ turns = 0

NextBoot ==
    \/ \E entry \in ConfigEntries : Startup(entry)
    \/ provider # "none" /\ req["r1"].pc = "idle" /\ ChatBegin("r1", "s1", "m1")
    \/ provider # "none" /\ req["r1"].pc = "idle" /\ StreamBegin("r1", "s1", "m1")
    \/ Backend("r1", PostOutcomes, OpenOutcomes, Frames)
    \/ StreamEnd("r1")
    \/ StoreCheck("r1")
    \/ StoreCreate("r1")
    \/ StoreUser("r1")
    \/ StoreAssistant("r1")
    \/ TrimRead("r1")
    \/ ChatReturn("r1")
    \/ StreamDone("r1")

SpecBoot == InitBoot /\ [][NextBoot]_vars

(* ------------------------------ properties ----------------------------- *)
LastOf(seq) == seq[Len(seq)]

\* the memory one turn leaves when it runs alone on history h
TurnAlone(h, message, reply) ==
    LET all == h \o <<UserEntry(message), AssistantEntry(reply)>>
    IN IF Len(all) > 2 * max_history
       THEN SubSeq(all, Len(all) - 2 * max_history + 1, Len(all))
       ELSE all

\* C1: for every provider and every failure of the backend, chat returns a
\* response object with all six fields and never ends by raising.
ChatAlwaysReturns ==
    \A r \in Slots :
        req[r].kind = "chat" =>
            /\ req[r].pc # "raised"
            /\ req[r].pc = "done" => Len(req[r].result) = 1

\* C2: every stream_chat consumed to its end stops after the completion
\* event, whatever the backend does; after a connectivity failure the
\* events are the tokens received, one error token and the completion
\* event.
StreamAlwaysCompletes ==
    \A r \in Slots :
        (req[r].kind = "stream" /\ req[r].pc \in {"done", "raised"}) =>
            /\ req[r].pc = "done"
            /\ req[r].events # <<>>
            /\ LastOf(req[r].events).done
            /\ \A i \in 1..(Len(req[r].events) - 1) : ~req[r].events[i].done
            /\ req[r].wire_failed =>
                  /\ Len(req[r].events) = Len(req[r].wire) + 2
                  /\ \A i \in 1..Len(req[r].wire) :
                        req[r].events[i] = TokenEvent(req[r].wire[i])

\* C3: when no call is in progress, every session's memory holds at most
\* 2 x max_history entries.
MemoryBounded ==
    Quiet => \A s \in DOMAIN conversations : Len(conversations[s]) <= 2 * max_history

\* a session has gone through a trim and is full
MemoryTrimmed ==
    /\ Quiet
    /\ "s1" \in DOMAIN conversations
    /\ Len(log["s1"]) > max_history
    /\ Len(conversations["s1"]) = 2 * max_history

\* C4: when no call is in progress, every session's memory has even length
\* and is a run of (user, assistant) pairs, each pair being the message and
\* the reply of one stored turn, in the order the turns were stored.
MemoryAlternates ==
    Quiet =>
        \A s \in DOMAIN conversations :
            LET h == conversations[s]
                n == Len(log[s])
                p == Len(h) \div 2
            IN /\ Len(h) % 2 = 0
               /\ p <= n
               /\ \A j \in 1..p :
                     /\ h[2 * j - 1].role = "user"
                     /\ h[2 * j].role = "assistant"
                     /\ h[2 * j - 1].content = log[s][n - p + j].message
                     /\ h[2 * j].content = log[s][n - p + j].reply

\* a trimmed memory that holds replies of chat and of stream_chat
MemoryTrimmedMixed ==
    /\ Quiet
    /\ "s1" \in DOMAIN conversations
    /\ Len(log["s1"]) > max_history
    /\ \E i, j \in 1..Len(conversations["s1"]) :
          /\ conversations["s1"][i] = AssistantEntry(<<"a">>)
          /\ conversations["s1"][j] = AssistantEntry(<<>>)

\* C5: a chat call and a fully consumed stream_chat call that start from
\* the same session memory with the same message, and to which the backend
\* sends the same text, end with the same response text and leave the same
\* session memory.
ChatStreamAgree ==
    \A r, q \in Slots :
        (/\ req[r].kind = "chat" /\ req[r].pc = "done" /\ req[r].wire_ok
         /\ req[q].kind = "stream" /\ req[q].pc = "done" /\ req[q].wire_ok
         /\ req[r].sid = req[q].sid
         /\ req[r].message = req[q].message
         /\ req[r].history = req[q].history
         /\ Join(req[r].wire) = Join(req[q].wire))
        => /\ req[r].response = Join(req[q].full_response)
           /\ req[r].after = req[q].after

\* C6: a fully consumed stream_chat whose backend stream emitted the
\* fragments t1..tn before its end marker has delivered exactly the token
\* events t1..tn in that order and then one completion event, and the
\* assistant entry it stored is the concatenation t1...tn.
StreamDeliversFragments ==
    \A r \in Slots :
        (req[r].kind = "stream" /\ req[r].pc = "done" /\ req[r].wire_ok) =>
            /\ req[r].events =
                   [i \in 1..Len(req[r].wire) |-> TokenEvent(req[r].wire[i])]
                       \o <<DoneEvent(provider)>>
            /\ req[r].after # <<>>
            /\ LastOf(req[r].after) = AssistantEntry(Join(req[r].wire))

\* a completed stream of two different fragments
StreamOfTwoFragments ==
    \E r \in Slots :
        /\ req[r].kind = "stream" /\ req[r].pc = "done" /\ req[r].wire_ok
        /\ req[r].wire = << <<" ">>, <<"a">> >>

\* C7: no step of a stream_chat that is still delivering token events
\* changes the session map, and once the completion event is out the
\* session's memory is the memory from before the call plus the user entry
\* and the assistant entry of the turn, added once, after the trim rule.
StreamStoresAfterTokens ==
    /\ [](\A r \in Slots :
            (req[r].kind = "stream" /\ req[r].pc = "done") =>
                /\ LastOf(req[r].events).done
                /\ req[r].after =
                       TurnAlone(req[r].history, req[r].message,
                                 Join(req[r].full_response)))
    /\ [][\A r \in Slots :
            req[r].pc \in {"open", "stream", "yielded"} =>
                conversations' = conversations]_vars

\* a completed stream of a later turn that delivered tokens
StreamStoredLaterTurn ==
    \E r \in Slots :
        /\ req[r].kind = "stream" /\ req[r].pc = "done"
        /\ Len(req[r].events) >= 3
        /\ req[r].history # <<>>
        /\ Len(req[r].after) = Len(req[r].history) + 2

\* C8: two calls on the same session never overlap: no call has read the
\* history or started generation while another call on that session has
\* not yet written its two entries.
SameSessionSerialized ==
    \A r, q \in Slots :
        (r # q /\ req[r].sid = req[q].sid) =>
            ~(/\ req[r].pc \in {"generate", "open", "stream", "yielded",
                                "store_check", "store_create", "store_user",
                                "store_assistant"}
              /\ InFlight(q))

\* C9: a started call can always take its next step whatever the other call
\* is doing, and a completed call whose session the other call does not
\* address has left the memory its turn leaves when it runs alone.
SessionsIndependent ==
    \A r \in Slots :
        /\ InFlight(r) => ENABLED ConcStep(r)
        /\ (/\ req[r].pc = "done"
            /\ \A q \in Slots \ {r} : req[q].sid # req[r].sid)
           => /\ req[r].sid \in DOMAIN conversations
              /\ conversations[req[r].sid] =
                     TurnAlone(req[r].history, req[r].message, req[r].response)

\* both calls are complete, on different sessions, one of them after a trim
TwoSessionsDone ==
    /\ req["r1"].pc = "done" /\ req["r2"].pc = "done"
    /\ req["r1"].sid # req["r2"].sid
    /\ \E r \in Slots : Len(req[r].history) = 2 * max_history

\* C10: clear_history never raises; on a session without stored memory it
\* leaves the session map as it was; and a second clear_history of the same
\* session right after the first would change nothing.
ClearAbsentIsNoop ==
    [][\A s \in Sessions :
          ClearHistory(s) =>
              /\ ~cleared'[1].raised
              /\ s \notin DOMAIN conversations => conversations' = conversations
              /\ Pop(conversations', s) = conversations'
              /\ \A t \in Sessions \ {s} :
                    /\ (t \in DOMAIN conversations') = (t \in DOMAIN conversations)
                    /\ t \in DOMAIN conversations =>
                          conversations'[t] = conversations[t]]_vars

\* clear_history has run on a session without memory while another session
\* held a stored turn
ClearedAbsent ==
    /\ cleared # <<>>
    /\ ~cleared[1].found
    /\ ~cleared[1].raised
    /\ DOMAIN conversations # {}

\* C11: every query returns, and what it returns is at most top_k
\* documents, each with a similarity at or above the relevance floor of
\* 0.02, in order of non-increasing similarity.
QueryTopRelevantSorted ==
    kbout.op = "query" =>
        /\ kbout.raised = "none"
        /\ Len(kbout.results) <= kbout.top_k
        /\ \A i \in 1..Len(kbout.results) :
              kbout.results[i].score * 10 >= RelevanceFloor
        /\ \A i \in 1..(Len(kbout.results) - 1) :
              kbout.results[i].score >= kbout.results[i + 1].score

\* a query of three rows that top_k cut to two documents, the last of them
\* with a score that rounds to the floor
QueryCutAtFloor ==
    /\ kbout.op = "query"
    /\ Len(kb.tfidf_matrix.rows) = 3
    /\ Len(kbout.results) = 2
    /\ kbout.top_k = 2
    /\ kbout.results[2].score * 10 = RelevanceFloor

\* the positions of the rows of k by descending similarity to question,
\* equal similarities in insertion order
InsertionOrderRanking(k, question) ==
    LET rows == k.tfidf_matrix.rows
        n == Len(rows)
        Before(i, j) ==
            \/ Similarity(question, rows[i]) > Similarity(question, rows[j])
            \/ Similarity(question, rows[i]) = Similarity(question, rows[j]) /\ i < j
    IN [r \in 1..n |->
           CHOOSE i \in 1..n : Cardinality({j \in 1..n : Before(j, i)}) = r - 1]

\* C12: documents of equal similarity are returned in insertion order, the
\* earlier-added first, and when top_k cuts a run of equal similarities the
\* earlier-added ones are the ones returned.
QueryTiesInInsertionOrder ==
    (kbout.op = "query" /\ kb.tfidf_matrix.set) =>
        LET ranking == InsertionOrderRanking(kb, kbout.question)
            texts == [i \in 1..Len(kbout.results) |-> kbout.results[i].text]
        IN /\ Len(kbout.results) <= Len(ranking)
           /\ texts = [i \in 1..Len(kbout.results) |-> kb.documents[ranking[i]]]

\* C13: query on a KnowledgeBase on which build_index has not been called,
\* whatever documents were added to it, returns the empty list and raises
\* nothing, and no query changes the KnowledgeBase.
QueryUnbuiltReturnsNothing ==
    /\ []((kbout.op = "query" /\ ~kb.indexed) =>
             /\ kbout.results = <<>>
             /\ kbout.raised = "none")
    /\ [][\A question \in Questions, top_k \in TopKs :
             KBQuery(question, top_k) => kb' = kb]_vars

\* a query that matches added documents of a KnowledgeBase without index
QueryUnbuiltWithDocuments ==
    /\ kbout.op = "query"
    /\ kbout.question = "m1"
    /\ kbout.top_k = QueryDefaultTopK
    /\ ~kb.indexed
    /\ kb.documents = <<"d1", "d2">>

\* C14: once the index is built, the documents and the similarity matrix
\* have the same number of entries and document i is the text that matrix
\* row i was fitted from, after every add, build_index, save and load.
IndexAlignedWithDocuments ==
    kb.tfidf_matrix.set =>
        /\ Len(kb.documents) = Len(kb.tfidf_matrix.rows)
        /\ Len(kb.metadata) = Len(kb.documents)
        /\ \A i \in 1..Len(kb.documents) : kb.documents[i] = kb.tfidf_matrix.rows[i]

LoadAllOrNothing ==
    /\ [](kbout.op = "load" =>
            IF disk.vectorizer = <<>> \/ disk.matrix = <<>> \/ disk.documents = <<>>
            THEN /\ kbout.raised = "FileNotFoundError"
                 /\ kbout.returned = <<>>
            ELSE /\ kbout.raised = "none"
                 /\ kbout.returned = <<kb>>
                 /\ kb.vectorizer = disk.vectorizer[1]
                 /\ kb.tfidf_matrix = disk.matrix[1]
                 /\ kb.documents = disk.documents[1].documents
                 /\ kb.metadata = disk.documents[1].metadata)
    /\ [][(KBLoad /\ kbout'.raised # "none") => kb' = kb]_vars

\* a load that found the vectorizer and the matrix but no documents file
LoadMissedDocuments ==
    /\ kbout.op = "load"
    /\ kbout.raised = "FileNotFoundError"
    /\ disk.vectorizer # <<>> /\ disk.matrix # <<>> /\ disk.documents = <<>>

\* C17: a client constructed with a provider value that names none of the
\* three supported providers (names compare without case) is not produced:
\* construction raises; and every client that is produced has the provider
\* its configuration names, the local server only when it names that one or
\* has no provider entry.
UnknownProviderRejected ==
    boot # <<>> =>
        LET entry == boot[1].config
        IN /\ (entry # <<>> /\ entry[1] \notin Providers \cup {"OLLAMA"}) =>
                 /\ boot[1].raised \in {"ValueError", "AttributeError"}
                 /\ provider = "none"
           /\ provider # "none" =>
                 /\ boot[1].raised = "none"
                 /\ provider \in Providers
                 /\ entry # <<>> => provider = Lower(entry[1])

\* construction with an unknown provider name has raised ValueError
UnknownProviderRaised ==
    /\ boot # <<>>
    /\ boot[1].config = <<"claude">>
    /\ boot[1].raised = "ValueError"
    /\ provider = "none"

\* C18: on the local-server provider, when the endpoint cannot be reached
\* generate raises the built-in ConnectionError with the remediation text,
\* and chat does not raise: it returns that text as the response, with
\* context_used telling whether retrieval found a document, and the memory
\* of the session gains the user message and that text as one pair.
UnreachableLocalServerDegrades ==
    \A r \in Slots :
        (/\ provider = "ollama"
         /\ req[r].kind = "chat"
         /\ req[r].wire_exc \in {ReqConnectionError, ReqConnectTimeout})
        => /\ Generate(provider, [kind |-> "exc", body |-> <<>>,
                                  exc |-> req[r].wire_exc])
                  = [raised |-> TRUE, text |-> OllamaHelp,
                     exc |-> BuiltinConnectionError]
           /\ req[r].pc # "raised"
           /\ req[r].pc = "done" =>
                 /\ req[r].result[1].response = OllamaHelp
                 /\ req[r].result[1].context_used =
                        (kb.present /\ Query(kb, req[r].message, RetrieveTopK) # <<>>)
                 /\ req[r].after =
                        TurnAlone(req[r].history, req[r].message, OllamaHelp)

\* a chat call of a later turn that found documents and no server
ChatDegradedWithContext ==
    \E r \in Slots :
        /\ provider = "ollama"
        /\ req[r].kind = "chat" /\ req[r].pc = "done"
        /\ req[r].wire_exc = ReqConnectionError
        /\ req[r].result[1].context_used
        /\ req[r].history # <<>>

\* C19: in both wire framings a malformed frame is skipped: reading it
\* yields nothing, raises nothing and leaves the stream open, so the
\* fragments of the well-formed frames before and after it are all
\* delivered, in order.
MalformedFrameSkipped ==
    [][\A r \in Slots, f \in Frames :
          (f.kind = "malformed" /\ StreamRead(r, f)) =>
              /\ req'[r].pc = "stream"
              /\ req'[r].exc = "none"
              /\ req'[r].events = req[r].events
              /\ req'[r].full_response = req[r].full_response]_vars

\* C20: for every provider, once the transport has failed during a stream
\* (at the POST, or while a line is read after k fragments) the stream has
\* raised nothing, and the fragments it yielded are the k fragments that
\* arrived followed by exactly one error fragment, after which it is over.
StreamFailureYieldsOneError ==
    \A r \in Slots :
        (req[r].kind = "stream" /\ req[r].wire_failed) =>
            /\ req[r].pc # "raised"
            /\ req[r].src_done
            /\ Len(req[r].full_response) = Len(req[r].wire) + 1
            /\ \A i \in 1..Len(req[r].wire) :
                  req[r].full_response[i] = req[r].wire[i]
            /\ LastOf(req[r].full_response) # <<>>

\* C21: the prompt of a turn is the context block, the history block, the
\* user message and the instruction suffix, in this order; the context
\* block is there exactly when retrieval returned a document, the history
\* block exactly when the session held an entry when the turn started.
PromptBlocksInOrder ==
    \A r \in Slots :
        req[r].kind # "none" =>
            LET p == req[r].prompt
                n == Len(p)
                found == IF kb.present
                         THEN Query(kb, req[r].message, RetrieveTopK) ELSE <<>>
                c == IF found # <<>> THEN 3 ELSE 0
            IN /\ n >= c + 2
               /\ p[n] = [part |-> "instruction"]
               /\ p[n - 1] = [part |-> "user", content |-> req[r].message]
               /\ found # <<>> =>
                     /\ p[1].part = "context_header"
                     /\ p[2].part = "context"
                     /\ Len(p[2].chunks) = Len(found)
                     /\ \A i \in 1..Len(found) : p[2].chunks[i].text = found[i].text
                     /\ p[3].part = "context_end"
               /\ \A i \in (c + 1)..n :
                     p[i].part \notin {"context_header", "context", "context_end"}
               /\ IF req[r].history # <<>>
                  THEN /\ n >= c + 5
                       /\ p[c + 1].part = "history_header"
                       /\ p[n - 2].part = "history_end"
                       /\ \A i \in (c + 2)..(n - 3) : p[i].part = "line"
                  ELSE n = c + 2
               /\ req[r].pc \in {"generate", "open"} =>
                     req[r].history = GetHistory(conversations, req[r].sid)

\* a prompt with a context block and a history block
PromptWithBothBlocks ==
    \E r \in Slots :
        /\ req[r].kind # "none"
        /\ req[r].history # <<>>
        /\ req[r].prompt[1].part = "context_header"
        /\ req[r].prompt[4].part = "history_header"

IsHistoryLine(part) == part.part = "line"

\* C22: the history block of the prompt holds the most recent
\* min(n, max_history) turns of the session, a turn being a user entry and
\* its assistant entry: the last min(2n, 2 x max_history) entries, in order.
PromptHistoryHoldsTurns ==
    \A r \in Slots :
        req[r].kind # "none" =>
            LET lines == SelectSeq(req[r].prompt, IsHistoryLine)
                h == req[r].history
                m == IF Len(h) < 2 * max_history THEN Len(h) ELSE 2 * max_history
            IN /\ Len(lines) = m
               /\ \A i \in 1..Len(lines) :
                     /\ lines[i].content = h[Len(h) - Len(lines) + i].content
                     /\ (lines[i].role = "User") =
                            (h[Len(h) - Len(lines) + i].role = "user")

\* C23: the chunks_retrieved field of the dict chat returns is the number
\* of documents that retrieval put into the context block of the turn's
\* prompt, so at most 6, and context_used is true exactly when it is
\* greater than 0.
ChunksRetrievedCountsContext ==
    \A r \in Slots :
        (req[r].kind = "chat" /\ req[r].pc = "done") =>
            /\ req[r].result[1].chunks_retrieved = Len(req[r].context)
            /\ req[r].result[1].chunks_retrieved <= RetrieveTopK
            /\ req[r].result[1].context_used = (req[r].result[1].chunks_retrieved > 0)

\* C24: a stream_chat reads the backend only as far as the events it has
\* handed out need, and once its consumer has abandoned it no further line
\* of the backend response is read and nothing else of the call runs.
AbandonedStreamStopsReading ==
    /\ [](\A r \in Slots :
            req[r].kind = "stream" =>
                /\ Len(req[r].wire) <= Len(req[r].events)
                /\ \A i \in 1..Len(req[r].wire) :
                      req[r].events[i] = TokenEvent(req[r].wire[i]))
    /\ [][\A r \in Slots :
            req[r].pc = "abandoned" => req'[r] = req[r]]_vars

\* a stream abandoned after its first event, before the backend response
\* was at its end
StreamAbandonedAfterOne ==
    \E r \in Slots :
        /\ req[r].pc = "abandoned"
        /\ Len(req[r].events) = 1
        /\ Len(req[r].wire) = 1
        /\ ~req[r].src_done

\* C25: eviction is first-in-first-out: when no call is in progress, the
\* memory of a session on which n turns have completed since its last clear
\* is the last min(2n, 2 x max_history) entries of the untrimmed sequence
\* of the user and assistant entries of those turns, in the same order.
MemoryIsLogTail ==
    Quiet =>
        \A s \in DOMAIN conversations :
            LET full == Flatten(log[s])
                keep == IF Len(full) < 2 * max_history
                        THEN Len(full) ELSE 2 * max_history
            IN conversations[s] = SubSeq(full, Len(full) - keep + 1, Len(full))

\* the first of max_history + 1 turns has been evicted, and its reply
\* differs from the reply of the turn that is now the oldest
EvictedOldestTurn ==
    /\ Quiet
    /\ "s1" \in DOMAIN conversations
    /\ Len(log["s1"]) = max_history + 1
    /\ log["s1"][1].reply # log["s1"][2].reply
    /\ conversations["s1"][2] = AssistantEntry(log["s1"][2].reply)

\* C26: when no call is in progress, a session id is a key of the session
\* map exactly when a turn on it has completed since its last
\* clear_history; a key appears only by the store step of a turn (reading
\* the history at the start of a turn creates none) and disappears only by
\* clear_history of that session.
SessionKeyLifetime ==
    /\ [](Quiet =>
            \A s \in Sessions : (s \in DOMAIN conversations) = (log[s] # <<>>))
    /\ [][/\ \A s \in DOMAIN conversations' \ DOMAIN conversations :
                \E r \in Slots :
                    /\ req[r].pc = "store_create" /\ req[r].sid = s
                    /\ req'[r].pc = "store_user"
          /\ \A s \in DOMAIN conversations \ DOMAIN conversations' :
                /\ cleared' = <<[sid |-> s, found |-> TRUE, raised |-> FALSE]>>
                /\ req' = req]_vars

\* a session that was cleared and then got its key back from a completed
\* turn
SessionKeyRecreated ==
    \E r \in Slots :
        /\ req[r].pc = "done"
        /\ cleared = <<[sid |-> req[r].sid, found |-> TRUE, raised |-> FALSE]>>
        /\ req[r].history = <<>>
        /\ req[r].sid \in DOMAIN conversations
        /\ Len(conversations[req[r].sid]) = 2

\* C27: when the knowledge-base directory holds some but not all of the
\* three artifacts, startup fails and the host has no engine; an engine
\* without knowledge base exists only when the directory holds none of
\* them.
PartialArtifactsFailStartup ==
    boot # <<>> =>
        LET held == {a \in {"vectorizer", "matrix", "documents"} : disk[a] # <<>>}
        IN /\ Cardinality(held) \in {1, 2} =>
                 /\ boot[1].raised # "none"
                 /\ provider = "none"
           /\ (provider # "none" /\ ~kb.present) => held = {}

\* C28: a chat call that ends by raising has left the session map as it
\* was when the call started: the call raises from the backend call only,
\* and no step of it up to there writes the map.
ChatRaisingStoresNothing ==
    [][\A r \in Slots :
          /\ (req[r].pc \in Terminal /\ req'[r].pc = "generate") =>
                conversations' = conversations
          /\ (req[r].kind = "chat" /\ req[r].pc = "generate") =>
                conversations' = conversations
          /\ (req[r].kind = "chat" /\ req[r].pc # "raised" /\ req'[r].pc = "raised") =>
                req[r].pc = "generate"]_vars

\* a chat call on a session without memory has raised a backend error, and
\* the session has no key
ChatRaisedWithoutKey ==
    \E r \in Slots :
        /\ req[r].kind = "chat" /\ req[r].pc = "raised"
        /\ req[r].exc = ReqHTTPError
        /\ req[r].history = <<>>
        /\ req[r].sid \notin DOMAIN conversations
        /\ cleared = <<>>

\* C29: a stream_chat that its consumer abandons before the backend stream
\* has ended, or that ends by an exception of the backend stream, writes
\* nothing to the session map and produces no completion event: the map is
\* written only after the backend stream has ended.
UnfinishedStreamStoresNothing ==
    /\ [](\A r \in Slots :
            (req[r].kind = "stream" /\ req[r].pc \in {"abandoned", "raised"}) =>
                \A i \in 1..Len(req[r].events) : ~req[r].events[i].done)
    /\ [][\A r \in Slots :
            /\ (req[r].pc \in Terminal /\ req'[r].pc = "open") =>
                  conversations' = conversations
            /\ req[r].pc \in {"open", "stream", "yielded"} =>
                  /\ conversations' = conversations
                  /\ req'[r].pc = "store_check" =>
                        (req'[r].wire_ok \/ req[r].src_done)
            /\ (/\ req[r].kind = "stream"
                /\ req[r].pc \notin {"abandoned", "raised"}
                /\ req'[r].pc \in {"abandoned", "raised"})
               => req[r].pc \in {"open", "stream", "yielded"}]_vars

\* a stream abandoned after two token events on a session with memory,
\* which is as it was
StreamAbandonedMemoryKept ==
    \E r \in Slots :
        /\ req[r].pc = "abandoned"
        /\ Len(req[r].events) = 2
        /\ req[r].history # <<>>
        /\ cleared = <<>>
        /\ conversations[req[r].sid] = req[r].history

\* C30: once two concurrent turns on one session have both completed, the
\* session's memory holds at most 2 x max_history entries, has even
\* length, alternates user and assistant entries starting with a user
\* entry, and ends with the pairs of the two turns, each user entry
\* directly followed by the reply of its own turn.
ConcurrentTurnsKeepPairs ==
    \A r, q \in Slots :
        (/\ r # q
         /\ req[r].pc = "done" /\ req[q].pc = "done"
         /\ req[r].sid = req[q].sid)
        => LET h == GetHistory(conversations, req[r].sid)
           IN /\ Len(h) <= 2 * max_history
              /\ Len(h) % 2 = 0
              /\ \A i \in 1..Len(h) :
                    h[i].role = IF i % 2 = 1 THEN "user" ELSE "assistant"
              /\ Len(h) >= 4
              /\ \E a, b \in Slots :
                    /\ a # b
                    /\ SubSeq(h, Len(h) - 3, Len(h)) =
                           <<UserEntry(req[a].message),
                             AssistantEntry(IF req[a].kind = "chat" THEN req[a].response
                                            ELSE Join(req[a].full_response)),
                             UserEntry(req[b].message),
                             AssistantEntry(IF req[b].kind = "chat" THEN req[b].response
                                            ELSE Join(req[b].full_response))>>

====
